---- MODULE Spec2Model ----
(***************************************************************************)
(* Model of kunal768/gaia-qa-agent: BasicAgent.run (keyword heuristics),   *)
(* run_and_submit_all (fetch / run agent / submit) of app.py and           *)
(* test_agent_on_questions of test_agent.py.                               *)
(*                                                                         *)
(* Text is modelled as a sequence of tokens.  A token stands for a fixed   *)
(* piece of text with its real length and its lower-case form; Python's    *)
(* `needle in text` is contiguous sub-sequence containment.                *)
(* An optional value (Python None / a value) is a sequence of length 0/1.  *)
(***************************************************************************)
EXTENDS Integers, Sequences, FiniteSets

VARIABLES
  pc,                \* position of the running function
  question,          \* BasicAgent.run: the argument
  agent_input,       \* what self.agent.run was handed, one entry per call
  run_result,        \* BasicAgent.run: how the call ended (optional)
  profile,           \* run_and_submit_all: the OAuth profile (optional)
  space_id,          \* os.getenv("SPACE_ID") (optional)
  questions_data,    \* the fetched list
  idx,               \* loop position in questions_data (next item, 1-based)
  results_log,       \* run_and_submit_all: results_log / test: results
  answers_payload,   \* run_and_submit_all: answers_payload
  events,            \* history: the external calls made, in order
  status,            \* returned status message (<<>> until the return)
  table,             \* returned results table (optional)
  oracle,            \* test: what the underlying agent would do per item
  num_questions      \* test: the parameter of test_agent_on_questions

vars == <<pc, question, agent_input, run_result, profile, space_id, questions_data, idx,
          results_log, answers_payload, events, status, table, oracle,
          num_questions>>

\* ------------------------------------------------------------------ bounds
MaxLen == 2          \* tokens in a question handed to BasicAgent.run
MaxItems == 2        \* items in a fetched question list

\* ------------------------------------------------------- optional values
None == <<>>
Some(x) == <<x>>
Val(o) == o[1]

\* ------------------------------------------------------------ text model
\* Tokens of the input alphabet: whitespace, the period, the operator sign,
\* the words and phrases the heuristics look for (some in a capitalised
\* form) and three neutral pieces of text of 3, 19 and 20 characters.
Tokens ==
  {" ", ".", "*", "youtube.com", "YouTube.com", "youtu.be",
   "image", "Chess", "position",
   "audio", "mp3", "recording", "voice memo", "listen",
   "python", "Python", "code", "numeric output",
   "excel", "xlsx", "spreadsheet", "sales", "file",
   "table", "operation", "commutative",
   "wikipedia", "nominated", "paper", "article",
   "who", "nineteen-char-words", "twenty-characters-tx"}

\* len() of the text of a token
TokLen(t) ==
  CASE t \in {" ", ".", "*"} -> 1
    [] t \in {"who", "mp3"} -> 3
    [] t \in {"xlsx", "code", "file"} -> 4
    [] t \in {"image", "Chess", "audio", "excel", "sales",
              "table", "paper"} -> 5
    [] t \in {"listen", "python", "Python"} -> 6
    [] t \in {"article"} -> 7
    [] t \in {"youtu.be", "position"} -> 8
    [] t \in {"recording", "operation", "wikipedia", "nominated"} -> 9
    [] t \in {"voice memo"} -> 10
    [] t \in {"youtube.com", "YouTube.com", "spreadsheet",
              "commutative"} -> 11
    [] t \in {"numeric output"} -> 14
    [] t \in {"nineteen-char-words"} -> 19
    [] t \in {"twenty-characters-tx"} -> 20

\* str.lower() of the text of a token
LowerTok(t) ==
  CASE t = "YouTube.com" -> "youtube.com"
    [] t = "Chess" -> "chess"
    [] t = "Python" -> "python"
    [] OTHER -> t

\* str.lower()
Lower(s) == [i \in 1..Len(s) |-> LowerTok(s[i])]

RECURSIVE StrLen(_)
\* len(s)
StrLen(s) == IF s = <<>> THEN 0 ELSE TokLen(Head(s)) + StrLen(Tail(s))

RECURSIVE LStrip(_)
LStrip(s) == IF s # <<>> /\ Head(s) = " " THEN LStrip(Tail(s)) ELSE s

RECURSIVE RStrip(_)
RStrip(s) ==
  IF s # <<>> /\ s[Len(s)] = " " THEN RStrip(SubSeq(s, 1, Len(s) - 1)) ELSE s

\* str.strip()
Strip(s) == RStrip(LStrip(s))

\* str.startswith(p)
StartsWith(s, p) == Len(s) >= Len(p) /\ SubSeq(s, 1, Len(p)) = p

\* `needle in s`
In(needle, s) ==
  \E i \in 1..(Len(s) - Len(needle) + 1) :
    SubSeq(s, i, i + Len(needle) - 1) = needle

\* ------------------------------------------------ BasicAgent.run (app.py)
\* The conditions of the if/elif chain, in source order.
IsReversed(q) == StartsWith(Strip(q), <<".">>) /\ StrLen(q) > 20

IsYouTube(q) == In(<<"youtube.com">>, q) \/ In(<<"youtu.be">>, q)

IsImage(q) ==
  LET ql == Lower(q)
  IN In(<<"image">>, ql) \/ In(<<"chess">>, ql) \/ In(<<"position">>, ql)

IsAudio(q) ==
  LET ql == Lower(q)
  IN \/ In(<<"audio">>, ql) \/ In(<<"mp3">>, ql) \/ In(<<"recording">>, ql)
     \/ In(<<"voice memo">>, ql) \/ In(<<"listen">>, ql)

IsPython(q) ==
  LET ql == Lower(q)
  IN \/ In(<<"python", " ", "code">>, ql)
     \/ (In(<<"code">>, ql) /\ In(<<"python">>, ql))
     \/ In(<<"numeric output">>, ql)

IsExcel(q) ==
  LET ql == Lower(q)
  IN \/ In(<<"excel">>, ql) \/ In(<<"xlsx">>, ql) \/ In(<<"spreadsheet">>, ql)
     \/ (In(<<"sales">>, ql) /\ In(<<"file">>, ql))

IsMath(q) ==
  LET ql == Lower(q)
  IN \/ (In(<<"table">>, ql) /\ (In(<<"operation">>, ql) \/ In(<<"*">>, q)))
     \/ In(<<"commutative">>, ql)

IsResearch(q) ==
  LET ql == Lower(q)
  IN \/ In(<<"wikipedia">>, ql) \/ In(<<"nominated">>, ql)
     \/ In(<<"paper">>, ql) \/ In(<<"article">>, ql)

\* The canned paragraphs: the text "\n\nNOTE: ..." of each branch, one token.
NoteReversed == "NOTE-reversed"
NoteYouTube == "NOTE-youtube"
NoteImage == "NOTE-image"
NoteAudio == "NOTE-audio"
NotePython == "NOTE-python"
NoteExcel == "NOTE-excel"
NoteMath == "NOTE-math"
NoteResearch == "NOTE-research"

Notes == {NoteReversed, NoteYouTube, NoteImage, NoteAudio, NotePython,
          NoteExcel, NoteMath, NoteResearch}

\* Variant: the paragraph is put in front of the question.
WithNotePrepended(q, note) == <<note>> \o q

\* The f-string of every branch: the question, then the paragraph.
WithNote(q, note) == q \o <<note>>

\* Variant: the audio check is made before the YouTube check.
EnhanceAudioFirst(q) ==
  IF IsReversed(q) THEN WithNote(q, NoteReversed)
  ELSE IF IsAudio(q) THEN WithNote(q, NoteAudio)
  ELSE IF IsYouTube(q) THEN WithNote(q, NoteYouTube)
  ELSE IF IsImage(q) THEN WithNote(q, NoteImage)
  ELSE IF IsPython(q) THEN WithNote(q, NotePython)
  ELSE IF IsExcel(q) THEN WithNote(q, NoteExcel)
  ELSE IF IsMath(q) THEN WithNote(q, NoteMath)
  ELSE IF IsResearch(q) THEN WithNote(q, NoteResearch)
  ELSE q

\* enhanced_question as run computes it
Enhance(q) ==
  IF IsReversed(q) THEN WithNote(q, NoteReversed)
  ELSE IF IsYouTube(q) THEN WithNote(q, NoteYouTube)
  ELSE IF IsImage(q) THEN WithNote(q, NoteImage)
  ELSE IF IsAudio(q) THEN WithNote(q, NoteAudio)
  ELSE IF IsPython(q) THEN WithNote(q, NotePython)
  ELSE IF IsExcel(q) THEN WithNote(q, NoteExcel)
  ELSE IF IsMath(q) THEN WithNote(q, NoteMath)
  ELSE IF IsResearch(q) THEN WithNote(q, NoteResearch)
  ELSE q

\* The underlying CodeAgent is opaque: self.agent.run either returns an
\* answer or raises.
Answers == {"Paris", "42"}
Errors == {"rate limit"}
Returned(a) == [kind |-> "ok", value |-> a]
Raised(e) == [kind |-> "raise", value |-> e]
Outcomes == {Returned(a) : a \in Answers} \cup {Raised(e) : e \in Errors}

\* BasicAgent.run(question): hands the enhanced question to self.agent.run
\* once and passes its outcome on.
AgentRun(q, out) == [handed |-> <<Enhance(q)>>, result |-> out]

\* BasicAgent.__call__(question)
AgentCall(q, out) == AgentRun(q, out)

\* Questions of at most MaxLen tokens
Questions == UNION {[1..n -> Tokens] : n \in 0..MaxLen}

\* ------------------------------------ specification of BasicAgent.run
InitRun ==
  /\ pc = "run"
  /\ question \in Questions
  /\ agent_input = <<>>
  /\ run_result = None
  /\ profile = None
  /\ space_id = None
  /\ questions_data = <<>>
  /\ idx = 1
  /\ results_log = <<>>
  /\ answers_payload = <<>>
  /\ events = <<>>
  /\ status = <<>>
  /\ table = None
  /\ oracle = <<>>
  /\ num_questions = 0

\* one call agent.run(question)
Run ==
  /\ pc = "run"
  /\ \E out \in Outcomes :
       LET r == AgentRun(question, out)
       IN /\ agent_input' = agent_input \o r.handed
          /\ run_result' = Some(r.result)
          /\ pc' = IF r.result.kind = "ok" THEN "returned" ELSE "raised"
  /\ UNCHANGED <<question, profile, space_id, questions_data, idx, results_log,
                 answers_payload, events, status, table, oracle, num_questions>>

NextRun == Run

SpecRun == InitRun /\ [][NextRun]_vars

\* ------------------------------------ run_and_submit_all (app.py)
\* profile.username of a logged-in user, as text
Usernames == {<<"alice">>, <<" ", "bob", " ">>}
Profiles == {None} \cup {Some(u) : u \in Usernames}
SpaceIds == {None, Some("user/space")}

\* One element of the fetched list: item.get("task_id"), item.get("question")
\* (None when the key is missing or null).
TaskIds == {None, Some(""), Some("t1"), Some("t2")}
ItemQuestions == {None, Some(<<>>), Some(<<"youtu.be">>)}
Items == [task_id : TaskIds, question : ItemQuestions]
QuestionLists == UNION {[1..n -> Items] : n \in 0..MaxItems}

\* What requests.get(questions_url) can raise
FetchErrors == {"RequestException", "Exception"}
\* How requests.post(submit_url) can end
PostOutcomes == {"ok", "HTTPError", "Timeout", "RequestException", "Exception"}

LoginMessage == <<"Please Login to Hugging Face with the button.">>
EmptyListMessage == <<"Fetched questions list is empty or invalid format.">>
NoAnswersMessage == <<"Agent did not produce any answers to submit.">>

\* f"{x}" of an optional text
Fmt(o) == IF o = None THEN "None" ELSE Val(o)

\* agent_code
AgentCode(sid) == <<"https://huggingface.co/spaces/", Fmt(sid), "/tree/main">>

\* Variant: `if not task_id or not question_text`
SkippedAlsoEmptyQuestion(item) ==
  \/ item.task_id = None \/ Val(item.task_id) = ""
  \/ item.question = None \/ Val(item.question) = <<>>

\* `if not task_id or question_text is None`
Skipped(item) ==
  \/ item.task_id = None \/ Val(item.task_id) = ""
  \/ item.question = None

\* The rows appended by the loop body
AnswerEntry(tid, a) == [task_id |-> tid, submitted_answer |-> a]
LogRow(tid, q, a) == [TaskID |-> tid, Question |-> q, SubmittedAnswer |-> a]

\* Variant: the except branch also appends its text to answers_payload.
LoopBodySubmitsErrors(item, out, log, payload) ==
  IF Skipped(item)
  THEN [log |-> log, payload |-> payload, handed |-> <<>>, called |-> FALSE]
  ELSE LET tid == Val(item.task_id)
           q == Val(item.question)
           r == AgentCall(q, out)
           a == IF r.result.kind = "ok" THEN r.result.value
                ELSE "AGENT ERROR: " \o r.result.value
       IN [log |-> Append(log, LogRow(tid, q, a)),
           payload |-> Append(payload, AnswerEntry(tid, a)),
           handed |-> r.handed, called |-> TRUE]

\* Variant: the except branch logs nothing.
LoopBodyDropsErrorRow(item, out, log, payload) ==
  IF Skipped(item)
  THEN [log |-> log, payload |-> payload, handed |-> <<>>, called |-> FALSE]
  ELSE LET tid == Val(item.task_id)
           q == Val(item.question)
           r == AgentCall(q, out)
       IN IF r.result.kind = "ok"
          THEN [log |-> Append(log, LogRow(tid, q, r.result.value)),
                payload |-> Append(payload, AnswerEntry(tid, r.result.value)),
                handed |-> r.handed, called |-> TRUE]
          ELSE [log |-> log, payload |-> payload,
                handed |-> r.handed, called |-> TRUE]

\* The body of `for item in questions_data`, given what the underlying
\* agent does on this item: the new results_log and answers_payload and the
\* calls made to the underlying agent.
LoopBody(item, out, log, payload) ==
  IF Skipped(item)
  THEN [log |-> log, payload |-> payload, handed |-> <<>>, called |-> FALSE]
  ELSE LET tid == Val(item.task_id)
           q == Val(item.question)
           r == AgentCall(q, out)
       IN IF r.result.kind = "ok"
          THEN [log |-> Append(log, LogRow(tid, q, r.result.value)),
                payload |-> Append(payload, AnswerEntry(tid, r.result.value)),
                handed |-> r.handed, called |-> TRUE]
          ELSE [log |-> Append(log, LogRow(tid, q,
                                   "AGENT ERROR: " \o r.result.value)),
                payload |-> payload,
                handed |-> r.handed, called |-> TRUE]

\* Variant: the loop stops one item early.
LoopDoneEarly(i, qs) == i >= Len(qs)

\* the for loop is over
LoopDone(i, qs) == i > Len(qs)

\* Variant: the emptiness check is missing.
HasAnswersAlways(payload) == TRUE

\* `if not answers_payload` is false: the run goes on to the POST
HasAnswers(payload) == payload # <<>>

\* submission_data
SubmissionData(username, sid, payload) ==
  [username |-> Strip(username), agent_code |-> AgentCode(sid),
   answers |-> payload]

\* the status message after the POST
PostStatus(o) ==
  CASE o = "ok" -> <<"Submission Successful!">>
    [] o = "HTTPError" -> <<"Submission Failed: ", "Server responded with status">>
    [] o = "Timeout" -> <<"Submission Failed: The request timed out.">>
    [] o = "RequestException" -> <<"Submission Failed: Network error - ", o>>
    [] o = "Exception" -> <<"An unexpected error occurred during submission: ", o>>

Init ==
  /\ pc = "start"
  /\ profile \in Profiles
  /\ space_id \in SpaceIds
  /\ question = <<>>
  /\ agent_input = <<>>
  /\ run_result = None
  /\ questions_data = <<>>
  /\ idx = 1
  /\ results_log = <<>>
  /\ answers_payload = <<>>
  /\ events = <<>>
  /\ status = <<>>
  /\ table = None
  /\ oracle = <<>>
  /\ num_questions = 0

\* Variant: the agent is constructed before the login check.
StartConstructsFirst ==
  /\ pc = "start"
  /\ events' = Append(events, [kind |-> "CONSTRUCT"])
  /\ IF profile # None
     THEN /\ pc' = "fetch"
          /\ UNCHANGED <<status, table>>
     ELSE /\ pc' = "done"
          /\ status' = LoginMessage
          /\ table' = None
  /\ UNCHANGED <<question, agent_input, run_result, profile, space_id,
                 questions_data, idx, results_log, answers_payload,
                 oracle, num_questions>>

\* lines 211-218: the login check
Start ==
  /\ pc = "start"
  /\ IF profile # None
     THEN /\ pc' = "init_agent"
          /\ UNCHANGED <<status, table>>
     ELSE /\ pc' = "done"
          /\ status' = LoginMessage
          /\ table' = None
  /\ UNCHANGED <<question, agent_input, run_result, profile, space_id,
                 questions_data, idx, results_log, answers_payload, events,
                 oracle, num_questions>>

\* lines 224-232: BasicAgent() succeeds or raises
InitAgent ==
  /\ pc = "init_agent"
  /\ events' = Append(events, [kind |-> "CONSTRUCT"])
  /\ \E ok \in BOOLEAN :
       IF ok
       THEN /\ pc' = "fetch"
            /\ UNCHANGED <<status, table>>
       ELSE /\ pc' = "done"
            /\ status' = <<"Error initializing agent: ", "Exception">>
            /\ table' = None
  /\ UNCHANGED <<question, agent_input, run_result, profile, space_id,
                 questions_data, idx, results_log, answers_payload, oracle, num_questions>>

\* lines 234-243, 255-258: the GET returns a list
FetchOk ==
  /\ pc = "fetch"
  /\ events' = Append(events, [kind |-> "GET"])
  /\ \E qs \in QuestionLists :
       IF qs = <<>>
       THEN /\ pc' = "done"
            /\ status' = EmptyListMessage
            /\ table' = None
            /\ UNCHANGED <<questions_data, idx, results_log, answers_payload>>
       ELSE /\ pc' = "loop"
            /\ questions_data' = qs
            /\ idx' = 1
            /\ results_log' = <<>>
            /\ answers_payload' = <<>>
            /\ UNCHANGED <<status, table>>
  /\ UNCHANGED <<question, agent_input, run_result, profile, space_id, oracle, num_questions>>

\* lines 244-253: the GET (or decoding its body) raises
FetchFails ==
  /\ pc = "fetch"
  /\ events' = Append(events, [kind |-> "GET"])
  /\ \E e \in FetchErrors :
       status' = IF e = "RequestException"
                 THEN <<"Error fetching questions: ", e>>
                 ELSE <<"An unexpected error occurred fetching questions: ", e>>
  /\ table' = None
  /\ pc' = "done"
  /\ UNCHANGED <<question, agent_input, run_result, profile, space_id,
                 questions_data, idx, results_log, answers_payload, oracle, num_questions>>

\* lines 259-272: one iteration of the loop
LoopStep ==
  /\ pc = "loop"
  /\ ~LoopDone(idx, questions_data)
  /\ \E out \in Outcomes :
       LET item == questions_data[idx]
           b == LoopBody(item, out, results_log, answers_payload)
       IN /\ results_log' = b.log
          /\ answers_payload' = b.payload
          /\ agent_input' = agent_input \o b.handed
          /\ events' = IF b.called
                        THEN Append(events, [kind |-> "AGENT", item |-> idx,
                                             result |-> out])
                        ELSE events
  /\ idx' = idx + 1
  /\ UNCHANGED <<pc, question, run_result, profile, space_id, questions_data,
                 status, table, oracle, num_questions>>

\* lines 274-276: nothing to submit
NoAnswers ==
  /\ pc = "loop"
  /\ LoopDone(idx, questions_data)
  /\ ~HasAnswers(answers_payload)
  /\ status' = NoAnswersMessage
  /\ table' = Some(results_log)
  /\ pc' = "done"
  /\ UNCHANGED <<question, agent_input, run_result, profile, space_id,
                 questions_data, idx, results_log, answers_payload, events,
                 oracle, num_questions>>

\* lines 278-324: the POST and the returned status
Submit ==
  /\ pc = "loop"
  /\ LoopDone(idx, questions_data)
  /\ HasAnswers(answers_payload)
  /\ events' = Append(events,
                 [kind |-> "POST",
                  body |-> SubmissionData(Val(profile), space_id,
                                          answers_payload)])
  /\ \E o \in PostOutcomes : status' = PostStatus(o)
  /\ table' = Some(results_log)
  /\ pc' = "done"
  /\ UNCHANGED <<question, agent_input, run_result, profile, space_id,
                 questions_data, idx, results_log, answers_payload, oracle, num_questions>>

Next ==
  \/ Start \/ InitAgent \/ FetchOk \/ FetchFails \/ LoopStep
  \/ NoAnswers \/ Submit

Spec == Init /\ [][Next]_vars

\* ------------------------------ test_agent_on_questions (test_agent.py)
\* Items of the list the test fetches: task_id, question, file_name
FileNames == {None, Some(""), Some("a.mp3")}
TestItems == [task_id : {Some("t1")},
              question : {None, Some(<<"who">>), Some(<<"youtu.be">>)},
              file_name : FileNames]
TestLists == UNION {[1..n -> TestItems] : n \in 0..MaxItems}

\* questions[:n]
Take(qs, n) == SubSeq(qs, 1, IF n < Len(qs) THEN n ELSE Len(qs))

\* The parameters `def run(self, question)` accepts besides self.
RunParameters == {"question"}

\* A call agent.run(q, **kw) with the keyword names kw: Python binds the
\* arguments first and raises TypeError, without entering run, when a
\* keyword names no parameter.
CallRun(q, kw, out) ==
  IF kw \subseteq RunParameters
  THEN AgentRun(q, out)
  ELSE [handed |-> <<>>,
        result |-> Raised("TypeError: unexpected keyword argument")]

\* test_fetch_file: the file content is there (200) or not (404, error)
DownloadOutcomes == {"200", "404"}

\* file_path of the loop body
FilePath(item, dl) ==
  IF item.file_name # None /\ Val(item.file_name) # "" /\ dl = "200"
  THEN item.file_name ELSE None

\* The result row the try/except of the loop body appends
TestRow(item, r) ==
  IF r.result.kind = "ok"
  THEN [task_id |-> Val(item.task_id), question |-> item.question,
        answer |-> r.result.value, success |-> TRUE]
  ELSE [task_id |-> Val(item.task_id), question |-> item.question,
        answer |-> "ERROR: " \o r.result.value, success |-> FALSE]

InitTest ==
  /\ pc = "t_fetch"
  /\ num_questions \in 1..MaxItems
  /\ profile = None
  /\ space_id = None
  /\ question = <<>>
  /\ agent_input = <<>>
  /\ run_result = None
  /\ questions_data = <<>>
  /\ idx = 1
  /\ results_log = <<>>
  /\ answers_payload = <<>>
  /\ events = <<>>
  /\ status = <<>>
  /\ table = None
  /\ oracle = <<>>

\* lines 79-83 (test_fetch_questions, lines 15-33): the list, or None
TestFetch ==
  /\ pc = "t_fetch"
  /\ events' = Append(events, [kind |-> "GET"])
  /\ \/ \E qs \in TestLists :
          /\ questions_data' = qs
          /\ pc' = IF qs = <<>> THEN "t_done" ELSE "t_init"
          /\ oracle' \in [1..Len(Take(qs, num_questions)) -> Outcomes]
     \/ /\ pc' = "t_done"
        /\ UNCHANGED <<questions_data, oracle>>
  /\ UNCHANGED <<question, agent_input, run_result, profile, space_id, idx,
                 results_log, answers_payload, status, table, num_questions>>

\* lines 85-95
TestInitAgent ==
  /\ pc = "t_init"
  /\ events' = Append(events, [kind |-> "CONSTRUCT"])
  /\ \E ok \in BOOLEAN : pc' = IF ok THEN "t_loop" ELSE "t_done"
  /\ idx' = 1
  /\ results_log' = <<>>
  /\ UNCHANGED <<question, agent_input, run_result, profile, space_id,
                 questions_data, answers_payload, status, table, oracle,
                 num_questions>>

\* lines 97-144: one iteration over test_questions
TestStep ==
  /\ pc = "t_loop"
  /\ idx <= Len(Take(questions_data, num_questions))
  /\ LET item == questions_data[idx]
     IN IF item.question = None
        THEN \* question_text[:150] on None: TypeError outside the try
             /\ pc' = "t_crashed"
             /\ UNCHANGED <<idx, results_log, agent_input, events>>
        ELSE \E dl \in DownloadOutcomes :
               LET fp == FilePath(item, dl)
                   r == CallRun(Val(item.question), {"file_path"}, oracle[idx])
               IN /\ events' = Append(events,
                                  [kind |-> "RUN", item |-> idx,
                                   question |-> item.question,
                                   file_path |-> fp])
                  /\ agent_input' = agent_input \o r.handed
                  /\ results_log' = Append(results_log, TestRow(item, r))
                  /\ idx' = idx + 1
                  /\ UNCHANGED pc
  /\ UNCHANGED <<question, run_result, profile, space_id, questions_data,
                 answers_payload, status, table, oracle, num_questions>>

\* lines 146-155: the summary
TestSummary ==
  /\ pc = "t_loop"
  /\ idx > Len(Take(questions_data, num_questions))
  /\ pc' = "t_done"
  /\ status' = <<"Successfully answered: ",
                 Cardinality({i \in 1..Len(results_log) :
                                 results_log[i].success})>>
  /\ UNCHANGED <<question, agent_input, run_result, profile, space_id,
                 questions_data, idx, results_log, answers_payload, events,
                 table, oracle, num_questions>>

NextTest == TestFetch \/ TestInitAgent \/ TestStep \/ TestSummary

SpecTest == InitTest /\ [][NextTest]_vars

\* ---------------------------------------------------------------- claims
\* Some heuristic of BasicAgent.run matches q.
AnyMatch(q) ==
  \/ IsReversed(q) \/ IsYouTube(q) \/ IsImage(q) \/ IsAudio(q)
  \/ IsPython(q) \/ IsExcel(q) \/ IsMath(q) \/ IsResearch(q)

RunCalled == pc \in {"returned", "raised"}

\* C3 as stated: when a heuristic matches, the string handed to the
\* underlying agent is a canned paragraph followed by the question.
C3_NotePrepended ==
  (RunCalled /\ AnyMatch(question)) =>
     /\ Len(agent_input) = 1
     /\ Len(agent_input[1]) = Len(question) + 1
     /\ Head(agent_input[1]) \in Notes
     /\ Tail(agent_input[1]) = question

\* C3 amended: when a heuristic matches, the string handed to the
\* underlying agent is the question followed by a canned paragraph (the
\* paragraph is appended, the original question text comes first).
C3_NoteAppended ==
  (RunCalled /\ AnyMatch(question)) =>
     /\ Len(agent_input) = 1
     /\ Len(agent_input[1]) = Len(question) + 1
     /\ SubSeq(agent_input[1], 1, Len(question)) = question
     /\ agent_input[1][Len(question) + 1] \in Notes

C3_Witness ==
  /\ pc = "returned"
  /\ question = <<"Chess", "who">>
  /\ agent_input = << <<"Chess", "who", NoteImage>> >>

\* The priority order of C9.
Priority == <<NoteReversed, NoteYouTube, NoteImage, NoteAudio, NotePython,
              NoteExcel, NoteMath, NoteResearch>>

MatchesAt(q, i) ==
  CASE i = 1 -> IsReversed(q)
    [] i = 2 -> IsYouTube(q)
    [] i = 3 -> IsImage(q)
    [] i = 4 -> IsAudio(q)
    [] i = 5 -> IsPython(q)
    [] i = 6 -> IsExcel(q)
    [] i = 7 -> IsMath(q)
    [] i = 8 -> IsResearch(q)

NotesIn(s) == {i \in 1..Len(s) : s[i] \in Notes}

KindsAt(k) == {i \in 1..Len(events) : events[i].kind = k}

IsAgentEvent(e) == e.kind = "AGENT"
AgentEvents == SelectSeq(events, IsAgentEvent)

\* An item that has a task_id and a question.
ValidItem(item) ==
  /\ item.task_id # None
  /\ Val(item.task_id) # ""
  /\ item.question # None

RECURSIVE ValidUpTo(_, _)
\* The positions <= n of the valid items of qs, in order.
ValidUpTo(qs, n) ==
  IF n = 0 THEN <<>>
  ELSE IF ValidItem(qs[n]) THEN Append(ValidUpTo(qs, n - 1), n)
       ELSE ValidUpTo(qs, n - 1)

RECURSIVE OkOnly(_)
\* The agent calls that returned an answer, in order.
OkOnly(es) ==
  IF es = <<>> THEN <<>>
  ELSE IF Head(es).result.kind = "ok" THEN <<Head(es)>> \o OkOnly(Tail(es))
       ELSE OkOnly(Tail(es))

\* C1: in a run that reaches submission there is exactly one GET, then one
\* agent call per fetched item that has a task_id and a question, in the
\* order of the list, then exactly one POST; no agent call comes before the
\* GET or after the POST, and neither request is made twice.
C1_EventOrder ==
  LET g == KindsAt("GET")
      p == KindsAt("POST")
      a == KindsAt("AGENT")
  IN /\ Cardinality(g) <= 1
     /\ Cardinality(p) <= 1
     /\ \A i \in a : (\E j \in g : j < i) /\ (\A k \in p : i < k)
     /\ p # {} =>
          /\ Cardinality(g) = 1
          /\ p = {Len(events)}
          /\ \A j \in g : \A i \in (j + 1)..(Len(events) - 1) : i \in a
          /\ [i \in 1..Len(AgentEvents) |-> AgentEvents[i].item]
               = ValidUpTo(questions_data, Len(questions_data))
          /\ agent_input =
               [i \in 1..Len(AgentEvents) |->
                  Enhance(Val(questions_data[AgentEvents[i].item].question))]

C1_Witness ==
  /\ pc = "done"
  /\ KindsAt("POST") # {}
  /\ Len(questions_data) = 2
  /\ Len(AgentEvents) = 2

\* C2: the body POSTed has exactly the keys username, agent_code and
\* answers; answers has exactly one {task_id, submitted_answer} entry per
\* fetched item on which the agent returned an answer, in fetched order,
\* with the returned value unchanged, and none for an item that was skipped
\* or on which the agent raised.
C2_SubmittedBody ==
  \A k \in KindsAt("POST") :
    LET b == events[k].body
        ok == OkOnly(AgentEvents)
    IN /\ DOMAIN b = {"username", "agent_code", "answers"}
       /\ b.answers =
            [i \in 1..Len(ok) |->
               [task_id |-> Val(questions_data[ok[i].item].task_id),
                submitted_answer |-> ok[i].result.value]]
       /\ \A i \in 1..Len(ok) : ValidItem(questions_data[ok[i].item])

C2_Witness ==
  /\ KindsAt("POST") # {}
  /\ Len(AgentEvents) = 2
  /\ AgentEvents[1].result.kind = "raise"
  /\ Len(events[Len(events)].body.answers) = 1

\* C4: with no logged-in profile the run returns the login message and no
\* table, and constructs no agent, makes no GET, no agent call and no POST.
C4_NotLoggedIn ==
  profile = None =>
    /\ events = <<>>
    /\ agent_input = <<>>
    /\ pc \in {"start", "done"}
    /\ pc = "done" =>
         /\ status = <<"Please Login to Hugging Face with the button.">>
         /\ table = None

C4_Witness == profile = None /\ pc = "done"

\* C6: an exception of the agent on one task does not stop the run: the task
\* gets a results-log row 'AGENT ERROR: <exception>' and no payload entry,
\* every later item is still processed, and at every point of the loop the
\* log has one row per valid item processed so far and the payload one
\* entry per row that is not an AGENT ERROR row.
C6_AgentErrorIsolated ==
  pc \in {"loop", "done"} /\ questions_data # <<>> =>
    LET ae == AgentEvents
        okRows == {i \in 1..Len(ae) : ae[i].result.kind = "ok"}
    IN /\ [i \in 1..Len(ae) |-> ae[i].item] = ValidUpTo(questions_data, idx - 1)
       /\ Len(results_log) = Len(ae)
       /\ \A i \in 1..Len(ae) :
            /\ results_log[i].TaskID = Val(questions_data[ae[i].item].task_id)
            /\ ae[i].result.kind = "raise" =>
                 results_log[i].SubmittedAnswer
                   = "AGENT ERROR: " \o ae[i].result.value
       /\ Len(answers_payload) = Cardinality(okRows)
       /\ \A i \in okRows :
            LET n == Cardinality({j \in okRows : j <= i})
            IN /\ answers_payload[n].task_id = results_log[i].TaskID
               /\ answers_payload[n].submitted_answer
                    = results_log[i].SubmittedAnswer
       /\ pc = "done" => idx = Len(questions_data) + 1

C6_Witness ==
  /\ pc = "done"
  /\ Len(AgentEvents) = 2
  /\ AgentEvents[1].result.kind = "raise"
  /\ AgentEvents[2].result.kind = "ok"
  /\ Len(results_log) = 2
  /\ Len(answers_payload) = 1

\* The agent call made for item j, if any.
CallsOf(j) == {i \in 1..Len(AgentEvents) : AgentEvents[i].item = j}

\* C7: an item is skipped (no agent call, no row, no payload entry) exactly
\* when its task_id is missing or falsy or its question is None; an item
\* with a task_id and the empty string as question is handed to the agent.
C7_SkipExactly ==
  pc \in {"loop", "done"} /\ questions_data # <<>> =>
    LET done == 1..(idx - 1)
        skip(j) == \/ questions_data[j].task_id = None
                   \/ questions_data[j].task_id = Some("")
                   \/ questions_data[j].question = None
    IN /\ \A j \in done : skip(j) <=> CallsOf(j) = {}
       /\ \A j \in done : Cardinality(CallsOf(j)) <= 1
       /\ Len(results_log) = Cardinality({j \in done : ~skip(j)})
       /\ Len(answers_payload) <= Len(results_log)
       /\ \A j \in done :
            (~skip(j) /\ questions_data[j].question = Some(<<>>)) =>
               \A i \in CallsOf(j) : agent_input[i] = <<>>

C7_Witness ==
  /\ pc = "loop"
  /\ idx = 3
  /\ questions_data[1] = [task_id |-> Some(""), question |-> Some(<<"youtu.be">>)]
  /\ questions_data[2] = [task_id |-> Some("t1"), question |-> Some(<<>>)]
  /\ CallsOf(1) = {}
  /\ CallsOf(2) = {1}

\* C8: when the payload is empty after the loop, no POST is made and the
\* run returns 'Agent did not produce any answers to submit.' with the
\* results log, AGENT ERROR rows included; a POST is made only with at
\* least one answer.
C8_NoPostWithoutAnswers ==
  /\ \A k \in KindsAt("POST") : Len(events[k].body.answers) >= 1
  /\ (pc = "done" /\ questions_data # <<>> /\ answers_payload = <<>>) =>
       /\ KindsAt("POST") = {}
       /\ status = <<"Agent did not produce any answers to submit.">>
       /\ table = Some(results_log)
       /\ Len(results_log) = Len(AgentEvents)
       /\ \A i \in 1..Len(results_log) :
            results_log[i].SubmittedAnswer
              = "AGENT ERROR: " \o AgentEvents[i].result.value

C8_Witness ==
  /\ pc = "done"
  /\ status = <<"Agent did not produce any answers to submit.">>
  /\ Len(Val(table)) = 2

\* ---- test_agent_on_questions
\* C5: for each of the first num_questions questions agent.run is called
\* with the question text and the file_path of the downloaded attachment
\* (None when there is none), and the recorded result has success=True with
\* the agent's answer whenever the underlying agent produces an answer;
\* success=False is recorded only when the underlying agent itself fails.
C5_SuccessWhenAgentAnswers ==
  pc \in {"t_loop", "t_done", "t_crashed"} =>
    \A i \in 1..Len(results_log) :
      /\ i <= num_questions
      /\ \E k \in KindsAt("RUN") :
           /\ events[k].item = i
           /\ events[k].question = questions_data[i].question
      /\ oracle[i].kind = "ok" =>
           /\ results_log[i].success
           /\ results_log[i].answer = oracle[i].value
      /\ ~results_log[i].success => oracle[i].kind = "raise"

====
